---- MODULE Spec2Model ----
(***************************************************************************)
(* A model of storage::Tablet (cpp/src/common/tablet.cc): a fixed-capacity *)
(* columnar batch with one timestamp column, one typed value column per    *)
(* measurement of the schema, and one validity bitmap per value column.    *)
(*                                                                         *)
(* The model is of the release build: ASSERT(false) in front of an error   *)
(* return is compiled out and the error code is returned.  The two ASSERTs *)
(* on the object's state at the entry of init and add_timestamp are the    *)
(* callers' contract and appear as the guards of these two actions.        *)
(*                                                                         *)
(* The heap is explicit.  Every malloc / new[] creates a block with a      *)
(* fresh id; a block records how often it was released.  malloc'ed memory  *)
(* is not initialised: its slots hold Indeterminate until written.         *)
(* Rows, columns and schema entries keep the 0-based indices of the code.  *)
(***************************************************************************)
EXTENDS Integers, FiniteSets, Sequences, TLC

\* ------------------------------------------------------------------ bounds
MaxRowNum == 2        \* largest max_row_num_ (capacity) a tablet is built with
MaxSchemaCount == 2   \* largest schema_vec_->size()
MaxCalls == 3         \* longest sequence of calls on one tablet

\* ------------------------------------------------------------- input sets
SampleNames == {"t1", "t2"}
UnknownName == "t9"
SampleValues == {1, 42}
SampleTimestamps == {1000, 2000}
SchemaTypes == {"INT64", "DOUBLE"}
\* the C++ types add_value is instantiated for, and the ones the callers use
TemplateTypes == {"bool", "int32_t", "int64_t", "float", "double"}
SampleTypes == {"int64_t", "double"}

\* common::TSDataType of a template type
GetDataTypeFromTemplateType(T) ==
    CASE T = "bool"    -> "BOOLEAN"
      [] T = "int32_t" -> "INT32"
      [] T = "int64_t" -> "INT64"
      [] T = "float"   -> "FLOAT"
      [] T = "double"  -> "DOUBLE"

NULL == 0
E_OK == "E_OK"
E_INVALID_ARG == "E_INVALID_ARG"
E_OUT_OF_RANGE == "E_OUT_OF_RANGE"
E_TYPE_NOT_MATCH == "E_TYPE_NOT_MATCH"
NoCall == "none"

\* the content of a slot: <<>> when never written, <<v>> when it holds v
Indeterminate == <<>>
Holds(v) == <<v>>

MeasurementSchema == [measurement_name_ : SampleNames, data_type_ : SchemaTypes]
\* the schemas a tablet is built on: 1 .. MaxSchemaCount entries, names free
SchemaVecs == UNION {[0 .. (n - 1) -> MeasurementSchema] : n \in 1 .. MaxSchemaCount}
Size(f) == Cardinality(DOMAIN f)

VARIABLES
    schema_vec_,     \* the schema the tablet was constructed with
    max_row_num_,    \* the capacity the tablet was constructed with
    schema_map_,     \* std::map measurement name -> schema index
    timestamps_,     \* NULL or the id of the timestamp block
    value_matrix_,   \* NULL or the id of the column-pointer table
    bitmaps_,        \* NULL or the id of the BitMap array
    heap,            \* block id -> [kind, data, frees]
    oob,             \* TRUE once storage outside a block has been written
    crashed,         \* TRUE once the process has died (segfault / abort)
    last_call,       \* the name of the most recent call
    ret,             \* what the most recent call returned
    calls            \* number of calls made so far

vars == <<schema_vec_, max_row_num_, schema_map_, timestamps_, value_matrix_,
          bitmaps_, heap, oob, crashed, last_call, ret, calls>>

ctor == <<schema_vec_, max_row_num_>>
ptrs == <<timestamps_, value_matrix_, bitmaps_>>

EmptyMap == [n \in {} |-> 0]
EmptyHeap == [b \in {} |-> 0]

Rows == 0 .. (max_row_num_ - 1)
Cols == 0 .. (Size(schema_vec_) - 1)

\* ------------------------------------------------------------------- heap
Block(kind, data) == [kind |-> kind, data |-> data, frees |-> 0]

\* malloc / new[]: the heap with a fresh block holding data under id
Alloc(h, id, kind, data) ==
    [b \in DOMAIN h \cup {id} |-> IF b = id THEN Block(kind, data) ELSE h[b]]

FreshId(h) == Cardinality(DOMAIN h) + 1

\* free / delete[]: one more release of block id
Free(h, id) == [h EXCEPT ![id].frees = @ + 1]

RECURSIVE FreeAll(_, _)
FreeAll(h, ids) ==
    IF ids = {} THEN h
    ELSE LET id == CHOOSE x \in ids : TRUE IN FreeAll(Free(h, id), ids \ {id})

Live(h, id) == id \in DOMAIN h /\ h[id].frees = 0

\* ------------------------------------------------------------------- init
\* a bug to tell C7 by: every name is inserted with index 0
MapInsert_IndexZero(map, name, c) ==
    [n \in DOMAIN map \cup {name} |-> IF n = name THEN 0 ELSE map[n]]

\* schema_map_.insert(std::make_pair(name, c)) on a map without the key
MapInsert(map, name, c) ==
    [n \in DOMAIN map \cup {name} |-> IF n = name THEN c ELSE map[n]]

\* the insertion loop: stops at the first name that is already a key
RECURSIVE InsertLoop(_, _)
InsertLoop(map, c) ==
    IF c >= Size(schema_vec_) THEN [map |-> map, ok |-> TRUE]
    ELSE LET name == schema_vec_[c].measurement_name_ IN
         IF name \in DOMAIN map
         THEN [map |-> map, ok |-> FALSE]
         ELSE InsertLoop(MapInsert(map, name, c), c + 1)

\* malloc(size * max_row_num_): max_row_num_ slots, none initialised
MallocRows == [r \in Rows |-> Indeterminate]

\* a bug to tell C9 by: the bitmaps are initialised with every bit set
BitMapInit_AllSet == [r \in 0 .. (max_row_num_ - 1) |-> TRUE]

\* bitmaps_[c].init(max_row_num_, /*init_as_zero=*/true)
BitMapInit == [r \in Rows |-> FALSE]

\* value_matrix_ and its columns: the table is block t, column c is block t+1+c
RECURSIVE AllocColumns(_, _, _)
AllocColumns(h, t, c) ==
    IF c >= Size(schema_vec_) THEN h
    ELSE AllocColumns(Alloc(h, t + 1 + c, "column", MallocRows), t, c + 1)

init ==
    /\ ~crashed
    /\ calls < MaxCalls
    /\ timestamps_ = NULL
    /\ LET ts == FreshId(heap)
           h1 == Alloc(heap, ts, "timestamps", MallocRows)
           ins == InsertLoop(schema_map_, 0)
       IN  /\ timestamps_' = ts
           /\ schema_map_' = ins.map
           /\ IF ~ins.ok
              THEN /\ heap' = h1
                   /\ ret' = E_INVALID_ARG
                   /\ UNCHANGED <<value_matrix_, bitmaps_>>
              ELSE LET t == FreshId(h1)
                       h2 == Alloc(h1, t, "value_matrix", [c \in Cols |-> t + 1 + c])
                       h3 == AllocColumns(h2, t, 0)
                       bm == FreshId(h3)
                       h4 == Alloc(h3, bm, "bitmaps", [c \in Cols |-> BitMapInit])
                   IN  /\ value_matrix_' = t
                       /\ bitmaps_' = bm
                       /\ heap' = h4
                       /\ ret' = E_OK
    /\ last_call' = "init"
    /\ calls' = calls + 1
    /\ UNCHANGED <<ctor, oob, crashed>>

\* ---------------------------------------------------------------- destroy
destroy ==
    /\ ~crashed
    /\ calls < MaxCalls
    /\ LET h1 == IF timestamps_ # NULL THEN Free(heap, timestamps_) ELSE heap
           h2 == IF value_matrix_ # NULL
                 THEN Free(FreeAll(h1, {heap[value_matrix_].data[c] : c \in Cols}),
                           value_matrix_)
                 ELSE h1
           h3 == IF bitmaps_ # NULL THEN Free(h2, bitmaps_) ELSE h2
       IN  /\ heap' = h3
           /\ timestamps_' = NULL
           /\ value_matrix_' = NULL
           \* bitmaps_ keeps its value; releasing a released block is undefined:
           \* the allocator aborts, or the call goes on
           /\ IF bitmaps_ # NULL /\ ~Live(heap, bitmaps_)
              THEN crashed' \in BOOLEAN
              ELSE crashed' = crashed
    /\ last_call' = "destroy"
    /\ ret' = ret
    /\ calls' = calls + 1
    /\ UNCHANGED <<ctor, schema_map_, bitmaps_, oob>>

\* ---------------------------------------------------------- add_timestamp
\* a bug to tell C6 by: row_index == max_row_num_ passes the check
RowOutOfRange_OffByOne(row_index) == row_index > max_row_num_

RowOutOfRange(row_index) == row_index >= max_row_num_

add_timestamp(row_index, timestamp) ==
    /\ ~crashed
    /\ calls < MaxCalls
    /\ timestamps_ # NULL
    /\ IF RowOutOfRange(row_index)
       THEN /\ ret' = E_OUT_OF_RANGE
            /\ heap' = heap
       ELSE /\ heap' = [heap EXCEPT ![timestamps_].data[row_index] = Holds(timestamp)]
            /\ ret' = E_OK
    /\ last_call' = "add_timestamp"
    /\ calls' = calls + 1
    /\ UNCHANGED <<ctor, schema_map_, ptrs, oob, crashed>>

\* -------------------------------------------------------------- add_value
\* a bug to tell C8 by: the last column of the schema is refused
ColumnOutOfRange_OffByOne(schema_index) == schema_index + 1 >= Size(schema_vec_)

ColumnOutOfRange(schema_index) == schema_index >= Size(schema_vec_)

\* a bug to tell C1 by: the comparison of the two types is inverted
TypeNotMatch_Inverted(T, schema_index) ==
    GetDataTypeFromTemplateType(T) = schema_vec_[schema_index].data_type_

TypeNotMatch(T, schema_index) ==
    GetDataTypeFromTemplateType(T) # schema_vec_[schema_index].data_type_

\* column_values[row_index] = val, with row_index inside the column's block
StoreValue(h, schema_index, row_index, val) ==
    [h EXCEPT ![h[value_matrix_].data[schema_index]].data[row_index] = Holds(val)]

\* a bug to tell C2 by: the cell is stored and its bit is left as it was
BitMapSet_Skipped(h, schema_index, row_index) == h

\* bitmaps_[schema_index].set(row_index), with row_index inside the bitmap
BitMapSet(h, schema_index, row_index) ==
    [h EXCEPT ![bitmaps_].data[schema_index][row_index] = TRUE]

\* The heaps a store past the end of a column's block can leave behind, as
\* far as the tablet's own blocks go: nothing of the tablet is hit, or one
\* slot of a timestamp or column block is clobbered.
OutOfBoundsHeaps(h) ==
    {h}
    \cup {[h EXCEPT ![b].data[r] = Indeterminate] :
            b \in {x \in DOMAIN h : h[x].kind \in {"timestamps", "column"}}, r \in Rows}

\* add_value(uint32_t row_index, uint32_t schema_index, T val)
add_value(row_index, schema_index, T, val) ==
    IF ColumnOutOfRange(schema_index)
    THEN /\ ret' = E_OUT_OF_RANGE
         /\ UNCHANGED <<heap, oob, crashed>>
    ELSE IF TypeNotMatch(T, schema_index)
    THEN /\ ret' = E_TYPE_NOT_MATCH
         /\ UNCHANGED <<heap, oob, crashed>>
    ELSE IF value_matrix_ = NULL
    THEN \* value_matrix_[schema_index] reads through a null pointer
         /\ crashed' = TRUE
         /\ UNCHANGED <<heap, oob, ret>>
    ELSE IF row_index < max_row_num_
    THEN /\ ret' = E_OK
         /\ UNCHANGED <<oob, crashed>>
         /\ heap' = BitMapSet(StoreValue(heap, schema_index, row_index, val),
                              schema_index, row_index)
    ELSE \* no check of row_index: the store lands past the end of the block
         \/ /\ crashed' = TRUE
            /\ oob' = TRUE
            /\ UNCHANGED <<heap, ret>>
         \/ /\ ret' = E_OK
            /\ oob' = TRUE
            /\ UNCHANGED crashed
            /\ heap' \in OutOfBoundsHeaps(heap)

\* the call by schema index
AddValueByIndex(row_index, schema_index, T, val) ==
    /\ ~crashed
    /\ calls < MaxCalls
    /\ add_value(row_index, schema_index, T, val)
    /\ last_call' = "add_value_index"
    /\ calls' = calls + 1
    /\ UNCHANGED <<ctor, schema_map_, ptrs>>

\* add_value(uint32_t row_index, const std::string &measurement_name, T val)
AddValueByName(row_index, measurement_name, T, val) ==
    /\ ~crashed
    /\ calls < MaxCalls
    /\ IF measurement_name \notin DOMAIN schema_map_
       THEN /\ ret' = E_INVALID_ARG
            /\ UNCHANGED <<heap, oob, crashed>>
       ELSE add_value(row_index, schema_map_[measurement_name], T, val)
    /\ last_call' = "add_value_name"
    /\ calls' = calls + 1
    /\ UNCHANGED <<ctor, schema_map_, ptrs>>

\* ------------------------------------------------------------ the callers
RowInputs == 0 .. MaxRowNum
IndexInputs == 0 .. MaxSchemaCount
NameInputs == SampleNames \cup {UnknownName}

Init ==
    /\ schema_vec_ \in SchemaVecs
    /\ max_row_num_ \in 1 .. MaxRowNum
    /\ schema_map_ = EmptyMap
    /\ timestamps_ = NULL
    /\ value_matrix_ = NULL
    /\ bitmaps_ = NULL
    /\ heap = EmptyHeap
    /\ oob = FALSE
    /\ crashed = FALSE
    /\ last_call = NoCall
    /\ ret = E_OK
    /\ calls = 0

Next ==
    \/ init
    \/ destroy
    \/ \E row \in RowInputs, ts \in SampleTimestamps : add_timestamp(row, ts)
    \/ \E row \in RowInputs, c \in IndexInputs, T \in SampleTypes, v \in SampleValues :
          AddValueByIndex(row, c, T, v)
    \/ \E row \in RowInputs, n \in NameInputs, T \in SampleTypes, v \in SampleValues :
          AddValueByName(row, n, T, v)

Spec == Init /\ [][Next]_vars

\* ------------------------------------------------- what a caller observes
\* init returned E_OK and destroy has not been called since
Initialized == timestamps_ # NULL /\ value_matrix_ # NULL /\ bitmaps_ # NULL

TimestampOf(h, r) == h[timestamps_].data[r]
CellOf(h, c, r) == h[h[value_matrix_].data[c]].data[r]
BitOf(h, c, r) == h[bitmaps_].data[c][r]

DeclaredType(c) == schema_vec_[c].data_type_
SameType(T, c) == GetDataTypeFromTemplateType(T) = DeclaredType(c)

\* everything the tablet stores, as a caller can observe it
TabletData(h) ==
    [ts |-> [r \in Rows |-> TimestampOf(h, r)],
     cells |-> [c \in Cols |-> [r \in Rows |-> CellOf(h, c, r)]],
     bits |-> [c \in Cols |-> [r \in Rows |-> BitOf(h, c, r)]]]

AllBitsClear(h) == \A c \in Cols, r \in Rows : ~BitOf(h, c, r)

\* ------------------------------------------------------------------ C1
\* C1: on an initialized tablet, add_value by index with schema_index <
\* column count and row_index < capacity returns E_TYPE_NOT_MATCH exactly
\* when the value's type differs from the column's declared type; it then
\* writes no cell and leaves the bit at (row, col) as it was; with equal
\* types it returns E_OK.
C1_TypeMismatchIffTypesDiffer ==
    [][(Initialized /\ last_call' = "add_value_index") =>
       \A c \in Cols, row \in Rows, T \in SampleTypes, v \in SampleValues :
          AddValueByIndex(row, c, T, v)
          => /\ ~crashed'
             /\ (ret' = E_TYPE_NOT_MATCH) <=> ~SameType(T, c)
             /\ ~SameType(T, c) => /\ TabletData(heap') = TabletData(heap)
                                   /\ BitOf(heap', c, row) = BitOf(heap, c, row)
             /\ SameType(T, c) => ret' = E_OK]_vars

C1_Witness ==
    /\ Initialized
    /\ last_call = "add_value_index"
    /\ ret = E_TYPE_NOT_MATCH
    /\ AllBitsClear(heap)

\* ------------------------------------------------------------------ C2
\* C2: for row < capacity and col < column count, after add_value(row, col, v)
\* with v of the declared type returns E_OK the bit at (row, col) is set and
\* the cell holds v, whatever the cell held before (so the latest of several
\* writes to one cell is the one that stays, with the bit still set).
C2_WriteSetsBitAndStoresValue ==
    [][(Initialized /\ last_call' = "add_value_index") =>
       \A c \in Cols, row \in Rows, T \in SampleTypes, v \in SampleValues :
          (SameType(T, c) /\ AddValueByIndex(row, c, T, v))
          => /\ ret' = E_OK
             /\ BitOf(heap', c, row)
             /\ CellOf(heap', c, row) = Holds(v)]_vars

C2_Witness ==
    /\ Initialized
    /\ last_call = "add_value_index"
    /\ ret = E_OK
    /\ ~oob
    /\ \E c \in Cols, r \in Rows : BitOf(heap, c, r) /\ CellOf(heap, c, r) = Holds(42)

\* ------------------------------------------------------------------ C3
\* C3: add_value with row_index >= capacity, a valid column and a value of
\* the declared type returns an error and changes nothing: no cell, no bit,
\* no timestamp, and nothing outside the column's block is written.
C3_RowOutOfRangeRejected ==
    [][(Initialized /\ last_call' = "add_value_index") =>
       \A c \in Cols, row \in RowInputs \ Rows, T \in SampleTypes, v \in SampleValues :
          (SameType(T, c) /\ AddValueByIndex(row, c, T, v))
          => /\ ~crashed'
             /\ ret' # E_OK
             /\ oob' = oob
             /\ TabletData(heap') = TabletData(heap)]_vars

\* ------------------------------------------------------------------ C4
\* C4: when init returns the duplicate-measurement error the tablet owns no
\* storage and no partly built name index, and on a tablet whose init has
\* never succeeded no add_timestamp returns E_OK.
C4_FailedInitOwnsNothing ==
    /\ (last_call = "init" /\ ret = E_INVALID_ARG)
       => /\ timestamps_ = NULL
          /\ value_matrix_ = NULL
          /\ bitmaps_ = NULL
          /\ schema_map_ = EmptyMap
          /\ \A b \in DOMAIN heap : ~Live(heap, b)
    /\ (last_call = "add_timestamp" /\ bitmaps_ = NULL) => ret # E_OK

\* ------------------------------------------------------------------ C5
\* C5: destroy releases every block of the tablet, and no block is ever
\* released more than once, in any sequence of calls.
C5_ReleasedExactlyOnce ==
    /\ \A b \in DOMAIN heap : heap[b].frees <= 1
    /\ last_call = "destroy" => \A b \in DOMAIN heap : heap[b].frees >= 1

\* ------------------------------------------------------------------ C6
\* C6: on an initialized tablet add_timestamp(row, value) returns
\* E_OUT_OF_RANGE exactly when row >= capacity and then changes nothing;
\* when row < capacity it returns E_OK and slot row holds value afterwards,
\* whatever it held before.
C6_TimestampRangeChecked ==
    [][(Initialized /\ last_call' = "add_timestamp") =>
       \A row \in RowInputs, ts \in SampleTimestamps :
        add_timestamp(row, ts)
        => /\ (ret' = E_OUT_OF_RANGE) <=> (row >= max_row_num_)
           /\ row >= max_row_num_ => /\ TabletData(heap') = TabletData(heap)
                                     /\ heap' = heap
           /\ row < max_row_num_ => /\ ret' = E_OK
                                    /\ TimestampOf(heap', row) = Holds(ts)]_vars

C6_Witness ==
    /\ Initialized
    /\ last_call = "add_timestamp"
    /\ ret = E_OK
    /\ calls >= 3
    /\ \E r \in Rows : TimestampOf(heap, r) = Holds(2000)

\* ------------------------------------------------------------------ C7
\* C7: on an initialized tablet, add_value by a name that the schema holds
\* at index i does what add_value by index i does (same return value, same
\* tablet), and add_value by a name the schema does not hold returns
\* E_INVALID_ARG and changes no cell, bit or timestamp.
NameAt(i, name) == schema_vec_[i].measurement_name_ = name

C7_NameWriteIsIndexWrite ==
    [][(Initialized /\ last_call' = "add_value_name") =>
       \A row \in RowInputs, n \in NameInputs, T \in SampleTypes, v \in SampleValues :
        AddValueByName(row, n, T, v)
        => IF \E i \in Cols : NameAt(i, n)
           THEN \A i \in Cols : NameAt(i, n) => add_value(row, i, T, v)
           ELSE /\ ret' = E_INVALID_ARG
                /\ heap' = heap
                /\ UNCHANGED <<oob, crashed>>]_vars

C7_Witness ==
    /\ Initialized
    /\ last_call = "add_value_name"
    /\ ret = E_OK
    /\ Size(schema_vec_) = 2
    /\ BitOf(heap, 1, 0)
    /\ ~BitOf(heap, 0, 0)

\* ------------------------------------------------------------------ C8
\* C8: add_value by an index outside [0, column count) returns
\* E_OUT_OF_RANGE for every row and value type and changes nothing; an index
\* inside [0, column count) never returns E_OUT_OF_RANGE.
C8_ColumnRangeChecked ==
    [][last_call' = "add_value_index" =>
       \A c \in IndexInputs :
          IF c >= Size(schema_vec_)
          THEN \/ /\ ret' = E_OUT_OF_RANGE
                  /\ heap' = heap
                  /\ UNCHANGED <<oob, crashed>>
               \/ \A row \in RowInputs, T \in SampleTypes, v \in SampleValues :
                     ~AddValueByIndex(row, c, T, v)
          ELSE \/ crashed'
               \/ ret' # E_OUT_OF_RANGE
               \/ \A row \in RowInputs, T \in SampleTypes, v \in SampleValues :
                     ~AddValueByIndex(row, c, T, v)]_vars

C8_Witness ==
    /\ Initialized
    /\ last_call = "add_value_index"
    /\ ret = E_OUT_OF_RANGE
    /\ \E c \in Cols, r \in Rows : BitOf(heap, c, r)

\* ------------------------------------------------------------------ C9
\* C9: a successful init leaves one column and one bitmap of capacity rows
\* per schema entry, every bit clear, and schema_map_ mapping the schema's
\* names one-to-one onto the column indices in schema order; the bits stay
\* clear until an add_value returns E_OK.
SuccessfulAddValue ==
    /\ last_call' \in {"add_value_index", "add_value_name"}
    /\ ret' = E_OK
    /\ ~crashed'

C9_FreshTabletAllNull ==
    [][/\ (init /\ ret' = E_OK)
          => /\ \A c \in Cols, r \in Rows : ~heap'[bitmaps_'].data[c][r]
             /\ DOMAIN heap'[bitmaps_'].data = Cols
             /\ DOMAIN heap'[value_matrix_'].data = Cols
             /\ \A c \in Cols :
                  /\ DOMAIN heap'[bitmaps_'].data[c] = Rows
                  /\ DOMAIN heap'[heap'[value_matrix_'].data[c]].data = Rows
             /\ DOMAIN heap'[timestamps_'].data = Rows
             /\ DOMAIN schema_map_' = {schema_vec_[c].measurement_name_ : c \in Cols}
             /\ \A c \in Cols : schema_map_'[schema_vec_[c].measurement_name_] = c
             /\ Cardinality(DOMAIN schema_map_') = Size(schema_vec_)
       /\ (Initialized /\ AllBitsClear(heap) /\ last_call' # "destroy" /\ ~SuccessfulAddValue)
          => AllBitsClear(heap')]_vars

C9_Witness ==
    /\ Initialized
    /\ AllBitsClear(heap)
    /\ calls = 3
    /\ last_call = "add_value_name"
    /\ Size(schema_vec_) = 2
    /\ max_row_num_ = 2

\* ----------------------------------------------------------------- C10
\* C10: on an initialized tablet an add_value that returns E_OK changes cell
\* (row, col) and its bit and nothing else, add_timestamp changes no cell and
\* no bit, no call clears a set bit, and capacity, schema and schema_map_
\* never change once init has succeeded.
C10_WritesTouchOnlyTheirCell ==
    [][/\ \A row \in RowInputs, c \in IndexInputs, T \in SampleTypes, v \in SampleValues :
            (Initialized /\ AddValueByIndex(row, c, T, v) /\ ret' = E_OK /\ ~crashed')
            => /\ TabletData(heap').ts = TabletData(heap).ts
               /\ \A c2 \in Cols, r2 \in Rows :
                    (c2 # c \/ r2 # row)
                    => /\ CellOf(heap', c2, r2) = CellOf(heap, c2, r2)
                       /\ BitOf(heap', c2, r2) = BitOf(heap, c2, r2)
       /\ (Initialized /\ last_call' = "add_timestamp")
            => /\ TabletData(heap').cells = TabletData(heap).cells
               /\ TabletData(heap').bits = TabletData(heap).bits
       /\ (Initialized /\ last_call' # "destroy")
            => /\ \A c \in Cols, r \in Rows : BitOf(heap, c, r) => BitOf(heap', c, r)
               /\ UNCHANGED <<ctor, schema_map_>>]_vars
====
